---- MODULE Spec2Model ----
(***************************************************************************)
(* Model of the MailServer service loop (src/src/main.rs): the select!     *)
(* loop with its four branches (accept, reload, shutdown, drain timer),    *)
(* the Message Queue `emails`, the Error Ledger `errors`, the AppState     *)
(* `state` with its persisted snapshot, the two Notify flags fed by the    *)
(* signal monitors (src/src/signals.rs) and the configuration loaded from  *)
(* the Config file (src/src/config.rs).                                    *)
(*                                                                         *)
(* Everything runs on the single main task, so `pc` is the place where     *)
(* that task is: waiting in select! ("loop"), blocked in read_until        *)
(* ("read"), at the end of the accept branch ("handled"), in the grace     *)
(* sleeps of reload/shutdown, inside the drain scan ("drain") or gone      *)
(* ("terminated").  The environment (clock, client, signals, edits of the  *)
(* Config file, outcome of the mail transport) is nondeterministic.        *)
(***************************************************************************)
EXTENDS Integers, Sequences, FiniteSets, TLC

\* ---------------------------------------------------------------- bounds
MaxQueue  == 3      \* entries the queue may hold in the model
MaxErrors == 2      \* records the ledger may hold in the model
MaxEvents == 3      \* frames handled in one run (caps state.event_counter)
MaxRate   == 3      \* largest rate_limit a Config file gives
MaxTime   == 301    \* the clock stops here
MaxOwed   == 2      \* SIGHUPs that may be waiting for their reload

\* ------------------------------------------------------ program constants
TTL == 300          \* Duration::from_secs(300), main.rs:440

\* The clock advances in steps of TTL/2 or TTL/2 + 1 seconds, so that ages
\* of exactly TTL (not expired) and TTL + 1 (expired) both occur.
TimeSteps == {TTL \div 2, TTL \div 2 + 1}

\* ------------------------------------------------------------ value sets
\* Payloads.  The code never looks into an Email, so the emails of a run are
\* told apart by a number: the k-th frame of a run, if it carries an email,
\* carries email k.  Garbage is a payload Email::from_json rejects.
Emails == 1..MaxEvents
Garbage == 0
FlagBits == {"OPTIMIZED", "ENCRYPTED"}
OPTIMIZED == {"OPTIMIZED"}          \* Flags::OPTIMIZED.bits()
NONE == {}                          \* Flags::NONE

\* A configuration is the app section of the Config file (the smtp section
\* goes to send_email only, whose outcome is free here); ok tells whether
\* load_app_config succeeds on it.
Intervals == {0, TTL \div 2}
Configs == [ok : {TRUE}, rate_limit : 0..MaxRate, loop_interval_seconds : Intervals]
NoConfig == [ok |-> FALSE, rate_limit |-> 0, loop_interval_seconds |-> 0]

Frames ==
    {[kind |-> "eof", flags |-> NONE, payload |-> Garbage],
     [kind |-> "bad_header", flags |-> NONE, payload |-> Garbage]}
    \cup [kind : {"msg"}, flags : SUBSET FlagBits, payload : Emails \cup {Garbage}]
NoConn == [open |-> FALSE, frame |-> [kind |-> "eof", flags |-> NONE, payload |-> Garbage],
           responses |-> <<>>]

\* the state file: absent before the first update_state of a first run
NoState == [present |-> FALSE, event_counter |-> 0, is_active |-> FALSE, data |-> ""]

VARIABLES
    pc,              \* where the main task is
    exit_cause,      \* why the process ended: "none", "startup", "shutdown", "panic"
    execution,       \* Arc<AtomicBool> execution
    emails,          \* LockWithTimeout<Vec<TimedEmail>>
    errors,          \* LockWithTimeout<Vec<ErrorEmail>>
    held,            \* write guards currently held, in acquisition order
    now,             \* Instant::now()
    state,           \* AppState of the main task
    persisted,       \* the state file written by update_state
    conn,            \* the connection of the current accept branch
    reload_flag,     \* permit stored in the reload Notify
    shutdown_flag,   \* permit stored in the shutdown Notify
    app_config,      \* let app_config: AppConfig (loaded at startup)
    source_config,   \* contents of the Config file
    loop_started,    \* when the current select! (and its sleep) was created
    current_time,    \* drain: let current_time = Instant::now()
    i,               \* drain: scan index
    iteration_count, \* drain: items processed in this tick
    tick_queue,      \* the queue as the current tick found it
    tick_log,        \* what the current tick did, in order
    contended,       \* locks on which a try_write would time out
    reloads_owed     \* SIGHUPs delivered less reload branches begun

vars == <<pc, exit_cause, execution, emails, errors, held, now, state, persisted,
          conn, reload_flag, shutdown_flag, app_config, source_config,
          loop_started, current_time, i, iteration_count, tick_queue, tick_log,
          contended, reloads_owed>>

Min(a, b) == IF a < b THEN a ELSE b

\* ------------------------------------------------------------- helpers

\* a slip that lets a frame without any flag through as a payload-bearing one
FlagsMismatch_NoneAccepted(flags) == flags # OPTIMIZED /\ flags # NONE

\* header.flags != Flags::OPTIMIZED.bits()
FlagsMismatch(flags) == flags # OPTIMIZED

\* Email::from_json(&payload) is Ok
Decodes(payload) == payload \in Emails

\* TimedEmail { email, received_at: Instant::now() }
TimedEmail(email, t) == [email |-> email, received_at |-> t]

\* email_array.push(email_tagged)
Push(q, e) == Append(q, e)

\* Vec::swap_remove in the place of Vec::remove: the last entry fills the hole
RemoveAt_swap(q, k) == [j \in 1..(Len(q) - 1) |-> IF j = k + 1 THEN q[Len(q)] ELSE q[j]]

\* a pop from the front in the place of remove(i)
RemoveAt_front(q, k) == Tail(q)

\* Vec::remove(i), i counted from 0
RemoveAt(q, k) == [j \in 1..(Len(q) - 1) |-> IF j <= k THEN q[j] ELSE q[j + 1]]

\* the operands of duration_since swapped: the age comes out as zero
Expired_Swapped(t, received_at) == received_at - t > TTL

\* >= in the place of >: an entry of exactly 300 seconds counts as expired
Expired_AtTTL(t, received_at) == t - received_at >= TTL

\* current_time.duration_since(received_at) > Duration::from_secs(300)
Expired(t, received_at) == t - received_at > TTL

\* <= in the place of <: one item more than rate_limit per tick
ScanGuard_OneMore(k, len, count, rate_limit) == k < len /\ count <= rate_limit

\* while i < email_vec.len() && iteration_count < app_config.app.rate_limit
ScanGuard(k, len, count, rate_limit) == k < len /\ count < rate_limit

\* a clear() that was forgotten: the queue is left as it is
Cleared_Kept(q) == q

\* email_array.clear()
Cleared(q) == <<>>

\* try_write / try_write_with_timeout on lock l gives Err: the lock is held by
\* the main task itself, or its acquisition would time out
Locked(l) == l \in contended \/ \E k \in 1..Len(held) : held[k] = l

\* the drain branch taking the queue lock before the ledger lock
DrainGuards_QueueFirst == <<"emails", "errors">>

\* the guards of the drain branch in the order it acquires them:
\* errors.try_write() at main.rs:405, emails.try_write() at main.rs:418
DrainGuards == <<"errors", "emails">>

\* ErrorEmail { hash, subject }: subject is "None" or "Some" (the error text)
ErrorEmail(subject) == [subject |-> subject]

\* a tick that gives up on the queue lock without a word in the ledger
QueueLockFailed_Silent(ledger) == ledger

\* email_errors.push(ErrorEmail { .. subject: None .. }) in the Err arm of
\* emails.try_write(), main.rs:425-429
QueueLockFailed(ledger) == Append(ledger, ErrorEmail("None"))

\* a report that empties the ledger it has reported
Reported_Cleared(ledger) == <<>>

\* the ledger after the report of its size, main.rs:480-484: as it was
Reported(ledger) == ledger

Response(status, reserved) == [status |-> status, reserved |-> reserved]

\* update_state(&mut state, &state_path, None): write-through of the state
Saved(s) == [s EXCEPT !.present = TRUE]

\* StatePersistence::load_state, then the forced startup values
LoadedState(file) ==
    IF file.present
    THEN [file EXCEPT !.is_active = FALSE, !.data = "Initializing"]
    ELSE [present |-> TRUE, event_counter |-> 0, is_active |-> FALSE,
          data |-> "Initializing"]

TypeOK ==
    /\ pc \in {"startup", "loop", "read", "handled", "reload_sleep", "reload_config",
               "shutdown_sleep", "drain", "terminated"}
    /\ exit_cause \in {"none", "startup", "shutdown", "panic"}
    /\ execution \in BOOLEAN
    /\ Len(emails) <= MaxQueue
    /\ Len(errors) <= MaxErrors
    /\ now \in 0..MaxTime
    /\ state.event_counter \in 0..MaxEvents
    /\ reload_flag \in BOOLEAN /\ shutdown_flag \in BOOLEAN
    /\ app_config \in Configs \cup {NoConfig}
    /\ source_config \in Configs \cup {NoConfig}
    /\ contended \subseteq {"errors", "emails"}
    /\ reloads_owed \in 0..MaxOwed

Init ==
    /\ pc = "startup"
    /\ exit_cause = "none"
    /\ execution = TRUE
    /\ emails = <<>>
    /\ errors = <<>>
    /\ held = <<>>
    /\ now = 0
    /\ state = NoState
    /\ persisted = NoState
    /\ conn = NoConn
    /\ reload_flag = FALSE
    /\ shutdown_flag = FALSE
    /\ app_config = NoConfig
    /\ source_config \in Configs \cup {NoConfig}
    /\ loop_started = 0
    /\ current_time = 0
    /\ i = 0
    /\ iteration_count = 0
    /\ tick_queue = <<>>
    /\ tick_log = <<>>
    /\ contended = {}
    /\ reloads_owed = 0

\* ---------------------------------------------------------------- startup

\* main.rs:59-182: load_app_config (exit on error), the middleware AppConfig
\* (panic on error), load or create the state and write it, bind the listener
\* (unwrap).  mw_ok and bind_ok are the outcomes of the two external calls.
Startup ==
    /\ pc = "startup"
    /\ \E mw_ok \in BOOLEAN, bind_ok \in BOOLEAN :
          IF ~source_config.ok \/ ~mw_ok
          THEN /\ pc' = "terminated"
               /\ exit_cause' = "startup"
               /\ UNCHANGED <<app_config, state, persisted, loop_started>>
          ELSE /\ app_config' = source_config
               /\ state' = LoadedState(persisted)
               /\ persisted' = Saved(LoadedState(persisted))
               /\ IF bind_ok
                  THEN pc' = "loop" /\ exit_cause' = exit_cause /\ loop_started' = now
                  ELSE pc' = "terminated" /\ exit_cause' = "startup"
                       /\ loop_started' = loop_started
    /\ UNCHANGED <<execution, emails, errors, held, now, conn, reload_flag,
                   shutdown_flag, source_config, current_time, i, iteration_count,
                   tick_queue, tick_log>>
    /\ UNCHANGED <<contended, reloads_owed>>

\* ----------------------------------------------------------- accept branch

\* Ok(mut conn) = tcp_listener.accept(), main.rs:186-192.  f is what the
\* client is going to send.  With the execution flag false the branch body is
\* skipped and the connection is dropped unread.
AcceptConn(f) ==
    /\ pc = "loop"
    /\ state.event_counter < MaxEvents
    /\ (f.kind = "msg" /\ Decodes(f.payload)) =>
            (Len(emails) < MaxQueue /\ f.payload = state.event_counter + 1)
    /\ conn' = [open |-> TRUE, frame |-> f, responses |-> <<>>]
    /\ pc' = IF execution THEN "read" ELSE "handled"
    /\ UNCHANGED <<exit_cause, execution, emails, errors, held, now, state, persisted,
                   reload_flag, shutdown_flag, app_config, source_config, loop_started,
                   current_time, i, iteration_count, tick_queue, tick_log>>
    /\ UNCHANGED <<contended, reloads_owed>>

\* send_err_tcp, main.rs:494-508: an ERROR response, then panic!()
send_err_tcp(c) == [c EXCEPT !.responses = Append(@, Response("ERROR", NONE))]

\* state.event_counter += 1
Counted(s) == [s EXCEPT !.event_counter = @ + 1]

\* main.rs:195-307: read_until, from_bytes, the flags check, Email::from_json,
\* the push under the queue lock, the reply, the event count and update_state.
\* wrote is the outcome of send_empty_ok (unwrapped at main.rs:286).
HandleFrame ==
    /\ pc = "read"
    /\ LET f == conn.frame IN
       \E wrote \in BOOLEAN :
         IF f.kind = "eof"
         THEN \* read_until(..).unwrap() on a stream that ended
              /\ pc' = "terminated" /\ exit_cause' = "panic"
              /\ UNCHANGED <<conn, emails, state, persisted>>
         ELSE IF f.kind = "bad_header"
         THEN \* Err(error) arm, main.rs:291-306
              /\ conn' = [conn EXCEPT !.responses = Append(@, Response("ERROR", NONE))]
              /\ state' = Counted(state)
              /\ persisted' = Saved(Counted(state))
              /\ pc' = "handled" /\ exit_cause' = exit_cause
              /\ emails' = emails
         ELSE IF FlagsMismatch(f.flags)
         THEN \* main.rs:215-239
              /\ conn' = [conn EXCEPT !.responses = Append(@, Response("SIDEGRADE", OPTIMIZED))]
              /\ state' = Counted(state)
              /\ persisted' = Saved(Counted(state))
              /\ pc' = "handled" /\ exit_cause' = exit_cause
              /\ emails' = emails
         ELSE IF ~Decodes(f.payload)
         THEN \* main.rs:246-257: send_err_tcp never returns
              /\ conn' = send_err_tcp(conn)
              /\ pc' = "terminated" /\ exit_cause' = "panic"
              /\ UNCHANGED <<emails, state, persisted>>
         ELSE IF Locked("emails")
         THEN \* main.rs:272-276
              /\ conn' = send_err_tcp(conn)
              /\ pc' = "terminated" /\ exit_cause' = "panic"
              /\ UNCHANGED <<emails, state, persisted>>
         ELSE \* main.rs:278-289
              /\ emails' = Push(emails, TimedEmail(f.payload, now))
              /\ IF wrote
                 THEN /\ conn' = [conn EXCEPT !.responses = Append(@, Response("OK", NONE))]
                      /\ state' = Counted(state)
                      /\ persisted' = Saved(Counted(state))
                      /\ pc' = "handled" /\ exit_cause' = exit_cause
                 ELSE /\ pc' = "terminated" /\ exit_cause' = "panic"
                      /\ UNCHANGED <<conn, state, persisted>>
    /\ UNCHANGED <<execution, errors, held, now, reload_flag, shutdown_flag, app_config,
                   source_config, loop_started, current_time, i, iteration_count,
                   tick_queue, tick_log>>
    /\ UNCHANGED <<contended, reloads_owed>>

\* end of the accept branch: conn goes out of scope, the loop selects again
ConnDrop ==
    /\ pc = "handled"
    /\ pc' = "loop"
    /\ conn' = NoConn
    /\ loop_started' = now
    /\ UNCHANGED <<exit_cause, execution, emails, errors, held, now, state, persisted,
                   reload_flag, shutdown_flag, app_config, source_config,
                   current_time, i, iteration_count, tick_queue, tick_log>>
    /\ UNCHANGED <<contended, reloads_owed>>

\* ----------------------------------------------------------- reload branch

\* a store that was forgotten: the flag stays true through the branch
Paused_Forgotten == TRUE

\* execution.store(false, Ordering::Relaxed), main.rs:314 and main.rs:395
Paused == FALSE

\* reload_flag.notified(), execution.store(false), main.rs:313-316
ReloadStart ==
    /\ pc = "loop"
    /\ reload_flag
    /\ reload_flag' = FALSE
    /\ reloads_owed' = reloads_owed - 1
    /\ execution' = Paused
    /\ pc' = "reload_sleep"
    /\ UNCHANGED <<exit_cause, emails, errors, held, now, state, persisted, conn,
                   shutdown_flag, app_config, source_config, loop_started,
                   current_time, i, iteration_count, tick_queue, tick_log>>
    /\ UNCHANGED contended

\* after the sleep: update_state, lock the queue (unwrap), clear, drop,
\* main.rs:319-326
ReloadClear ==
    /\ pc = "reload_sleep"
    /\ persisted' = Saved(state)
    /\ IF Locked("emails")
       THEN pc' = "terminated" /\ exit_cause' = "panic" /\ emails' = emails
       ELSE pc' = "reload_config" /\ exit_cause' = exit_cause /\ emails' = Cleared(emails)
    /\ UNCHANGED <<execution, errors, held, now, state, conn, reload_flag, shutdown_flag,
                   app_config, source_config, loop_started, current_time, i,
                   iteration_count, tick_queue, tick_log>>
    /\ UNCHANGED <<contended, reloads_owed>>

\* main.rs:328-392: the middleware AppConfig (panic on error), a state loaded
\* or created into a branch-local `state` that shadows the outer one, written
\* by update_state, then execution.store(true).  app_config is not assigned.
ReloadFinish ==
    /\ pc = "reload_config"
    /\ \E mw_ok \in BOOLEAN :
          IF ~mw_ok
          THEN /\ pc' = "terminated" /\ exit_cause' = "panic"
               /\ UNCHANGED <<persisted, execution, loop_started>>
          ELSE /\ persisted' = Saved(LoadedState(persisted))
               /\ execution' = TRUE
               /\ pc' = "loop" /\ exit_cause' = exit_cause
               /\ loop_started' = now
    /\ UNCHANGED <<emails, errors, held, now, state, conn, reload_flag, shutdown_flag,
                   app_config, source_config, current_time, i, iteration_count,
                   tick_queue, tick_log>>
    /\ UNCHANGED <<contended, reloads_owed>>

\* --------------------------------------------------------- shutdown branch

\* shutdown_flag.notified(), execution.store(false), main.rs:394-397
ShutdownStart ==
    /\ pc = "loop"
    /\ shutdown_flag
    /\ shutdown_flag' = FALSE
    /\ execution' = Paused
    /\ pc' = "shutdown_sleep"
    /\ UNCHANGED <<exit_cause, emails, errors, held, now, state, persisted, conn,
                   reload_flag, app_config, source_config, loop_started,
                   current_time, i, iteration_count, tick_queue, tick_log>>
    /\ UNCHANGED <<contended, reloads_owed>>

\* wind_down_state, std::process::exit(0), main.rs:398-399
ShutdownFinish ==
    /\ pc = "shutdown_sleep"
    /\ state' = [state EXCEPT !.is_active = FALSE]
    /\ persisted' = Saved([state EXCEPT !.is_active = FALSE])
    /\ pc' = "terminated"
    /\ exit_cause' = "shutdown"
    /\ UNCHANGED <<execution, emails, errors, held, now, conn, reload_flag,
                   shutdown_flag, app_config, source_config, loop_started,
                   current_time, i, iteration_count, tick_queue, tick_log>>
    /\ UNCHANGED <<contended, reloads_owed>>

\* ------------------------------------------------------------ drain branch

\* sleep(loop_interval_seconds) elapsed; errors.try_write(), emails.try_write(),
\* current_time, i, iteration_count, main.rs:402-437.  A synthetic record
\* needs room in the ledger of the model.
DrainStart ==
    /\ pc = "loop"
    /\ now - loop_started >= app_config.loop_interval_seconds
    /\ (~Locked("errors") /\ Locked("emails")) => Len(errors) < MaxErrors
    /\ IF Locked("errors")
       THEN /\ loop_started' = now
            /\ UNCHANGED <<pc, errors, held, current_time, i, iteration_count,
                           tick_queue, tick_log>>
       ELSE IF Locked("emails")
       THEN /\ errors' = QueueLockFailed(errors)
            /\ loop_started' = now
            /\ UNCHANGED <<pc, held, current_time, i, iteration_count,
                           tick_queue, tick_log>>
       ELSE /\ held' = DrainGuards
            /\ current_time' = now
            /\ i' = 0
            /\ iteration_count' = 0
            /\ tick_queue' = emails
            /\ tick_log' = <<>>
            /\ pc' = "drain"
            /\ UNCHANGED <<errors, loop_started>>
    /\ UNCHANGED <<exit_cause, execution, emails, now, state, persisted, conn,
                   reload_flag, shutdown_flag, app_config, source_config>>
    /\ UNCHANGED <<contended, reloads_owed>>

\* an index that moves on after a removal as well
Advance_Always(k, removed) == k + 1

\* the scan index after one item: remove(i) leaves it where it is, since the
\* next entry has moved into its place (main.rs:446, 460); a failed dispatch
\* is followed by i += 1 (main.rs:473)
Advance(k, removed) == IF removed THEN k ELSE k + 1

\* one iteration of the scan loop, main.rs:439-478.  sent is the outcome of
\* send_email; a failure needs room in the ledger of the model.
DrainStep ==
    /\ pc = "drain"
    /\ ScanGuard(i, Len(emails), iteration_count, app_config.rate_limit)
    /\ LET e == emails[i + 1] IN
         IF Expired(current_time, e.received_at)
         THEN /\ emails' = RemoveAt(emails, i)
              /\ tick_log' = Append(tick_log, [entry |-> e, outcome |-> "expired"])
              /\ i' = Advance(i, TRUE)
              /\ errors' = errors
         ELSE \E sent \in {TRUE} \cup (IF Len(errors) < MaxErrors THEN {FALSE} ELSE {}) :
                IF sent
                THEN /\ emails' = RemoveAt(emails, i)
                     /\ tick_log' = Append(tick_log, [entry |-> e, outcome |-> "sent"])
                     /\ i' = Advance(i, TRUE)
                     /\ errors' = errors
                ELSE /\ errors' = Append(errors, ErrorEmail("Some"))
                     /\ i' = Advance(i, FALSE)
                     /\ tick_log' = Append(tick_log, [entry |-> e, outcome |-> "failed"])
                     /\ emails' = emails
    /\ iteration_count' = iteration_count + 1
    /\ UNCHANGED <<pc, exit_cause, execution, held, now, state, persisted, conn,
                   reload_flag, shutdown_flag, app_config, source_config, loop_started,
                   current_time, tick_queue>>
    /\ UNCHANGED <<contended, reloads_owed>>

\* a tick that lets go of the ledger guard only
Dropped_LedgerOnly(guards) == <<"emails">>

\* drop(email_errors); drop(email_vec), main.rs:486-487
Dropped(guards) == <<>>

\* a tick that marks the state as it rests
TickState_Marked(s) == [s EXCEPT !.data = "Resting"]

\* the AppState after a tick: the drain branch neither assigns to `state` nor
\* calls update_state, main.rs:402-489
TickState(s) == s

\* the scan is over: report the size of the ledger, drop both guards,
\* main.rs:480-489
DrainEnd ==
    /\ pc = "drain"
    /\ ~ScanGuard(i, Len(emails), iteration_count, app_config.rate_limit)
    /\ held' = Dropped(held)
    /\ pc' = "loop"
    /\ loop_started' = now
    /\ i' = 0
    /\ iteration_count' = 0
    /\ tick_queue' = <<>>
    /\ tick_log' = <<>>
    /\ current_time' = 0
    /\ errors' = Reported(errors)
    /\ state' = TickState(state)
    /\ UNCHANGED <<exit_cause, execution, emails, now, persisted, conn,
                   reload_flag, shutdown_flag, app_config, source_config>>
    /\ UNCHANGED <<contended, reloads_owed>>

\* -------------------------------------------------------------- environment

\* the places where the main task waits and the world moves on
Waiting == pc \in {"loop", "read", "reload_sleep", "shutdown_sleep", "drain"}

\* reload_monitor: SIGHUP -> notify_one(), signals.rs:7-15, with no permit
\* stored in the Notify: the permit is stored
SigHup ==
    /\ Waiting
    /\ ~reload_flag
    /\ reloads_owed < MaxOwed
    /\ reload_flag' = TRUE
    /\ reloads_owed' = reloads_owed + 1
    /\ UNCHANGED <<pc, exit_cause, execution, emails, errors, held, now, state,
                   persisted, conn, shutdown_flag, app_config, source_config,
                   loop_started, current_time, i, iteration_count, tick_queue, tick_log>>
    /\ UNCHANGED contended

\* shutdown_monitor: SIGUSR1 -> notify_one(), signals.rs:17-25
SigUsr1 ==
    /\ Waiting
    /\ ~shutdown_flag
    /\ shutdown_flag' = TRUE
    /\ UNCHANGED <<pc, exit_cause, execution, emails, errors, held, now, state,
                   persisted, conn, reload_flag, app_config, source_config,
                   loop_started, current_time, i, iteration_count, tick_queue, tick_log>>
    /\ UNCHANGED <<contended, reloads_owed>>

\* time passes
Tick(d) ==
    /\ Waiting
    /\ now + d <= MaxTime
    /\ now' = now + d
    /\ UNCHANGED <<pc, exit_cause, execution, emails, errors, held, state, persisted,
                   conn, reload_flag, shutdown_flag, app_config, source_config,
                   loop_started, current_time, i, iteration_count, tick_queue, tick_log>>
    /\ UNCHANGED <<contended, reloads_owed>>

\* the operator edits the Config file after it has been loaded: one edit,
\* which changes both settings, is enough to tell a re-read from none
Edited(c) ==
    [c EXCEPT !.rate_limit = (@ + 1) % (MaxRate + 1),
              !.loop_interval_seconds = IF @ = 0 THEN TTL \div 2 ELSE 0]

ConfigEdit ==
    /\ Waiting
    /\ source_config = app_config
    /\ source_config' = Edited(source_config)
    /\ UNCHANGED <<pc, exit_cause, execution, emails, errors, held, now, state,
                   persisted, conn, reload_flag, shutdown_flag, app_config,
                   loop_started, current_time, i, iteration_count, tick_queue, tick_log>>
    /\ UNCHANGED <<contended, reloads_owed>>

\* reload_monitor: SIGHUP -> notify_one(), signals.rs:7-15, while the main task
\* is busy in a branch and the Notify holds a permit already: notify_one()
\* leaves the one permit as it is
SigHupMerged ==
    /\ pc \in {"read", "reload_sleep", "shutdown_sleep", "drain"}
    /\ reload_flag
    /\ reloads_owed < MaxOwed
    /\ reloads_owed' = reloads_owed + 1
    /\ UNCHANGED <<pc, exit_cause, execution, emails, errors, held, now, state,
                   persisted, conn, reload_flag, shutdown_flag, app_config,
                   source_config, loop_started, current_time, i, iteration_count,
                   tick_queue, tick_log, contended>>

\* from here on a try_write on lock l times out (LockWithTimeout gives Err
\* after its timeout, main.rs:269, 322, 405, 418) ...
Contend(l) ==
    /\ Waiting
    /\ ~Locked(l)
    /\ contended' = contended \cup {l}
    /\ UNCHANGED <<pc, exit_cause, execution, emails, errors, held, now, state,
                   persisted, conn, reload_flag, shutdown_flag, app_config,
                   source_config, loop_started, current_time, i, iteration_count,
                   tick_queue, tick_log, reloads_owed>>

\* ... and from here on it succeeds again
Release(l) ==
    /\ Waiting
    /\ l \in contended
    /\ contended' = contended \ {l}
    /\ UNCHANGED <<pc, exit_cause, execution, emails, errors, held, now, state,
                   persisted, conn, reload_flag, shutdown_flag, app_config,
                   source_config, loop_started, current_time, i, iteration_count,
                   tick_queue, tick_log, reloads_owed>>

Next ==
    \/ Startup
    \/ \E f \in Frames : AcceptConn(f)
    \/ HandleFrame
    \/ ConnDrop
    \/ ReloadStart
    \/ ReloadClear
    \/ ReloadFinish
    \/ ShutdownStart
    \/ ShutdownFinish
    \/ DrainStart
    \/ DrainStep
    \/ DrainEnd
    \/ SigHup
    \/ SigUsr1
    \/ \E d \in TimeSteps : Tick(d)
    \/ ConfigEdit

Spec == Init /\ [][Next]_vars

\* The main task keeps running: a branch that has begun goes on to its end
\* (the sleeps end, send_email returns), and a branch of select! that is ready
\* again and again is selected in the end (select! picks among the ready
\* branches at random).  Nothing is assumed of the clients, the signals, the
\* clock or the operator.
FairSpec ==
    /\ Spec
    /\ WF_vars(ConnDrop)
    /\ WF_vars(ReloadClear) /\ WF_vars(ReloadFinish)
    /\ WF_vars(ShutdownFinish)
    /\ WF_vars(DrainStep) /\ WF_vars(DrainEnd)
    /\ SF_vars(ReloadStart) /\ SF_vars(ShutdownStart) /\ SF_vars(DrainStart)

\* The program with every SIGHUP: Spec leaves out the SIGHUPs that find a
\* permit stored, which change nothing that the program holds.
BurstNext ==
    \/ Next
    \/ SigHupMerged

BurstSpec == Init /\ [][BurstNext]_vars

\* The program with locks that can time out.  The two locks are locals of
\* main that only the main task touches, so under Spec no acquisition fails
\* and the Err arms of the lock calls do not run; here they do.
ContendedNext ==
    \/ Next
    \/ \E l \in {"errors", "emails"} : Contend(l)
    \/ \E l \in {"errors", "emails"} : Release(l)

\* one rate limit is enough here: what a tick does when a lock fails does not
\* depend on it
ContendedInit == Init /\ source_config.ok /\ source_config.rate_limit = 1

ContendedSpec == ContendedInit /\ [][ContendedNext]_vars

\* =================================================================== claims

\* the step in which the accept branch handles the frame it has read
Handling == pc = "read" /\ pc' # "read"

\* C1 (upgrade negotiation): whenever the accept branch handles a frame whose
\* header parses and whose flags lack the OPTIMIZED bit, it sends exactly the
\* response status = SIDEGRADE, reserved = OPTIMIZED, goes on, and the Message
\* Queue after the step is the queue before it.
C1_UpgradeNegotiation ==
    [][(Handling /\ conn.frame.kind = "msg" /\ "OPTIMIZED" \notin conn.frame.flags)
          => /\ conn'.responses = <<Response("SIDEGRADE", OPTIMIZED)>>
             /\ emails' = emails
             /\ pc' = "handled"]_vars

\* C1 witness: an upgrade request has been answered while entries were queued
C1_Witness ==
    /\ pc = "handled"
    /\ conn.frame.kind = "msg"
    /\ "OPTIMIZED" \notin conn.frame.flags
    /\ conn.responses = <<Response("SIDEGRADE", OPTIMIZED)>>
    /\ Len(emails) > 0

\* C2 (accepted path), as claimed: whenever the accept branch handles a frame
\* whose flags contain the OPTIMIZED bit (with whatever other bits) and whose
\* payload decodes, and the reply can be written, exactly one entry holding
\* that email with received_at = now is appended to the tail of the queue and
\* the reply is status = OK.
C2_AcceptedPath ==
    [][(Handling /\ conn.frame.kind = "msg" /\ "OPTIMIZED" \in conn.frame.flags
          /\ Decodes(conn.frame.payload) /\ pc' # "terminated")
          => /\ emails' = Append(emails, [email |-> conn.frame.payload, received_at |-> now])
             /\ conn'.responses = <<Response("OK", NONE)>>]_vars

\* C3 (malformed payload), as claimed: whenever the accept branch handles a
\* frame with flags = OPTIMIZED whose payload does not decode, it replies
\* status = ERROR, leaves the queue as it was, and the service loop goes on.
C3_MalformedPayload ==
    [][(Handling /\ conn.frame.kind = "msg" /\ conn.frame.flags = OPTIMIZED
          /\ ~Decodes(conn.frame.payload))
          => /\ conn'.responses = <<Response("ERROR", NONE)>>
             /\ emails' = emails
             /\ pc' = "handled"]_vars

\* C4 (errors never terminate), as claimed: the process is terminated only if
\* startup failed or the shutdown branch ran.
C4_OnlyStartupOrShutdownTerminate ==
    pc = "terminated" => exit_cause \in {"startup", "shutdown"}

\* ------------------------------------------------------------- drain ticks

\* the scan of the current tick is over (the guards are about to be dropped)
TickDone ==
    /\ pc = "drain"
    /\ ~(i < Len(emails) /\ iteration_count < app_config.rate_limit)

\* the entries of a log, and the entries of a log whose dispatch failed
EntriesOf(log) == [k \in 1..Len(log) |-> log[k].entry]
FailedOf(log) == SelectSeq(log, LAMBDA r : r.outcome = "failed")

\* older than the TTL at the start of the current tick
TooOld(e) == current_time - e.received_at > 300

\* C5 (FIFO drain order): the queue is always in arrival order; within a tick
\* the k-th entry the scan handles is the k-th entry of the queue as the tick
\* found it, so the transport sees entries in increasing queue position; what
\* is left is, in order, the entries that failed followed by the entries not
\* yet reached; and a tick with rate_limit >= 3 that finds three entries, none
\* expired, and never fails, dispatches them in order and empties the queue.
C5_FifoDrainOrder ==
    /\ \A j, k \in 1..Len(emails) :
          j < k => /\ emails[j].email < emails[k].email
                   /\ emails[j].received_at <= emails[k].received_at
    /\ pc = "drain" =>
          /\ Len(tick_log) <= Len(tick_queue)
          /\ EntriesOf(tick_log) = SubSeq(tick_queue, 1, Len(tick_log))
          /\ emails = EntriesOf(FailedOf(tick_log))
                        \o SubSeq(tick_queue, Len(tick_log) + 1, Len(tick_queue))
    /\ ( /\ TickDone
         /\ app_config.rate_limit >= 3
         /\ Len(tick_queue) = 3
         /\ \A k \in 1..3 : ~TooOld(tick_queue[k])
         /\ FailedOf(tick_log) = <<>> )
       => /\ tick_log = [k \in 1..3 |-> [entry |-> tick_queue[k], outcome |-> "sent"]]
          /\ emails = <<>>

\* C5 witness: a tick has dispatched three entries in order and emptied the queue
C5_Witness ==
    /\ TickDone
    /\ app_config.rate_limit >= 3
    /\ Len(tick_queue) = 3
    /\ tick_log = [k \in 1..3 |-> [entry |-> tick_queue[k], outcome |-> "sent"]]
    /\ emails = <<>>

\* C6 (TTL expiry), as claimed: at the end of a tick every entry that was older
\* than the TTL when the tick started is out of the queue and was not handed
\* to the transport, whatever its position and whatever the rate limit (taken
\* here for the positive rate limits only, where it already fails).
C6_ExpiryRegardlessOfBudget ==
    (TickDone /\ app_config.rate_limit >= 1) =>
        \A k \in 1..Len(tick_queue) :
            TooOld(tick_queue[k]) =>
                /\ \A j \in 1..Len(emails) : emails[j] # tick_queue[k]
                /\ \A j \in 1..Len(tick_log) :
                      tick_log[j].entry = tick_queue[k] => tick_log[j].outcome = "expired"

\* C6 as amended: the transport is never invoked on an entry older than the
\* TTL at tick start, and nothing younger is discarded as expired; at the end
\* of a tick an entry older than the TTL that was among the first rate_limit
\* entries of the queue is out of the queue, and one beyond them is still in it.
C6_ExpiryWithinBudget ==
    pc = "drain" =>
        /\ \A j \in 1..Len(tick_log) :
              TooOld(tick_log[j].entry) <=> tick_log[j].outcome = "expired"
        /\ TickDone =>
              \A k \in 1..Len(tick_queue) :
                  TooOld(tick_queue[k]) =>
                      IF k <= app_config.rate_limit
                      THEN \A j \in 1..Len(emails) : emails[j] # tick_queue[k]
                      ELSE \E j \in 1..Len(emails) : emails[j] = tick_queue[k]

\* C6 witness: a tick has discarded an expired entry unsent and has left
\* another expired entry, beyond its budget, in the queue
C6_Witness ==
    /\ TickDone
    /\ \E j \in 1..Len(tick_log) :
          TooOld(tick_log[j].entry) /\ tick_log[j].outcome = "expired"
    /\ \E j \in 1..Len(emails) : TooOld(emails[j])

\* C7 (rate limiting): at the end of a tick with rate_limit = N that found L
\* entries, exactly min(N, L) entries have been processed, whatever the
\* outcomes, and the other L - min(N, L) entries are the tail of the queue,
\* untouched.
C7_RateLimit ==
    TickDone =>
        LET n == Min(app_config.rate_limit, Len(tick_queue)) IN
        /\ iteration_count = n
        /\ Len(tick_log) = n
        /\ EntriesOf(tick_log) = SubSeq(tick_queue, 1, n)
        /\ Len(emails) >= Len(tick_queue) - n
        /\ SubSeq(emails, Len(emails) - (Len(tick_queue) - n) + 1, Len(emails))
              = SubSeq(tick_queue, n + 1, Len(tick_queue))

\* C7 witness: a tick with more entries than its limit has processed exactly
\* rate_limit of them, with different outcomes, and left the rest
C7_Witness ==
    /\ TickDone
    /\ app_config.rate_limit = 2
    /\ Len(tick_queue) = 3
    /\ Len(tick_log) = 2
    /\ tick_log[1].outcome # tick_log[2].outcome
    /\ emails[Len(emails)] = tick_queue[3]

\* ------------------------------------------------------- retry, then expire

\* an entry received at t is in the queue / is older than the TTL by now
Queued(t) == \E j \in 1..Len(emails) : emails[j].received_at = t
AgedOut(t) == pc # "terminated" /\ Queued(t) /\ now - t > 300

\* the times at which an entry can have been received and age out in the model
AgingTimes == 0..(MaxTime - 301)

\* what one step of a scan does with the entry it handles: an entry older
\* than the TTL at tick start is never handed to the transport; a failed
\* attempt leaves the queue as it was and appends exactly one record (with the
\* error text) to the ledger; any other step leaves the ledger alone.
C8_AttemptStep ==
    (pc = "drain" /\ pc' = "drain" /\ Len(tick_log') = Len(tick_log) + 1) =>
        LET r == tick_log'[Len(tick_log')] IN
        /\ r.entry = emails[i + 1]
        /\ r.outcome \in {"sent", "failed"} => current_time - r.entry.received_at <= 300
        /\ IF r.outcome = "failed"
           THEN emails' = emails /\ errors' = Append(errors, [subject |-> "Some"])
           ELSE errors' = errors

\* C8 (retry, then expire), as claimed: the above, and, provided drain ticks
\* keep occurring, every queued entry older than the TTL is eventually out of
\* the queue.
C8_RetryThenExpire ==
    /\ [][C8_AttemptStep]_vars
    /\ ([]<><<DrainStart>>_vars) => \A t \in AgingTimes : AgedOut(t) ~> ~Queued(t)

\* C8 as amended: the same, provided also that rate_limit >= 1.
C8_RetryThenExpireIfBudget ==
    /\ [][C8_AttemptStep]_vars
    /\ ([]<><<DrainStart>>_vars) =>
          \A t \in AgingTimes : (AgedOut(t) /\ app_config.rate_limit >= 1) ~> ~Queued(t)

\* C8 witness: an entry whose dispatch failed twice has just been found
\* expired by a later tick and discarded, with the two records in the ledger
C8_Witness ==
    /\ pc = "drain"
    /\ Len(errors) = 2
    /\ Len(tick_log) > 0
    /\ tick_log[Len(tick_log)].outcome = "expired"
    /\ tick_log[Len(tick_log)].entry.email = 1
    /\ state.event_counter = 1
    /\ app_config.rate_limit >= 1

\* ------------------------------------------------------------------ reload

\* the step that ends a reload
ReloadEnds == pc = "reload_config" /\ pc' = "loop"

\* C9 (reload clears the queue): a reload that ends, ends with an empty queue
\* and the execution flag true; from the clearing of the queue to the end of
\* the reload the queue is empty and the flag false; the queue is cleared by
\* the reload only while the flag is false; and the flag goes from false to
\* true only in the step that ends a reload, after the queue was cleared and
\* with the state loaded again and written.
C9_ReloadClearsQueue ==
    /\ [](pc = "reload_config" => (emails = <<>> /\ ~execution))
    /\ [][ReloadEnds => (emails' = <<>> /\ execution')]_vars
    /\ [][(pc = "reload_sleep" /\ pc' = "reload_config")
             => (~execution /\ ~execution' /\ emails' = <<>>)]_vars
    /\ [][(~execution /\ execution')
             => (ReloadEnds /\ emails = <<>>
                 /\ persisted' = [persisted EXCEPT !.is_active = FALSE,
                                                   !.data = "Initializing"])]_vars

\* C9 witness: a reload has cleared the queue and is about to end
C9_Witness ==
    /\ pc = "reload_config"
    /\ emails = <<>>
    /\ ~execution
    /\ state.event_counter = MaxEvents
    /\ persisted.event_counter = MaxEvents

\* C10 (reload re-reads the configuration), as claimed: when a reload ends,
\* the configuration the drain loop uses is the one the Config file holds.
C10_ReloadRereadsConfig ==
    [][ReloadEnds => app_config' = source_config']_vars

\* ------------------------------------------------------------- scheduling

\* C11 (connections are handled concurrently), as claimed: while a handler
\* waits for its client to send a complete frame, the service loop can still
\* accept a further connection, start the reload or the shutdown branch when
\* its signal has been delivered, and start a drain tick when the interval
\* has elapsed.
C11_LoopServesWhileHandlerReads ==
    pc = "read" =>
        /\ ENABLED (\E f \in Frames : AcceptConn(f))
        /\ reload_flag => ENABLED ReloadStart
        /\ shutdown_flag => ENABLED ShutdownStart
        /\ now - loop_started >= app_config.loop_interval_seconds => ENABLED DrainStart

\* C12 (the drain tick runs once per interval), as claimed: the interval is
\* measured from the previous tick or from startup, so the accept branch and the
\* reload branch leave the instant it is measured from where it was when they
\* give the loop back (shown for an interval that is not zero).
C12_IntervalMeasuredFromLastTick ==
    [][(/\ pc \in {"handled", "reload_config"}
        /\ pc' = "loop"
        /\ app_config.loop_interval_seconds > 0)
          => loop_started' = loop_started]_vars

\* ---------------------------------------------------------------- responses

\* the one response the protocol asks for; a frame that carries OPTIMIZED
\* together with other bits is left to C2
Expected(f) ==
    IF f.kind # "msg" THEN {Response("ERROR", NONE)}
    ELSE IF "OPTIMIZED" \notin f.flags THEN {Response("SIDEGRADE", {"OPTIMIZED"})}
    ELSE IF f.flags # {"OPTIMIZED"}
         THEN {Response("OK", NONE), Response("ERROR", NONE),
               Response("SIDEGRADE", {"OPTIMIZED"})}
    ELSE IF f.payload \in Emails THEN {Response("OK", NONE)}
    ELSE {Response("ERROR", NONE)}

\* C13 (exactly one response), as claimed: once the accept branch is through
\* with a connection, with the loop still running or not, the server has sent
\* exactly one response on it: OK for an accepted frame, SIDEGRADE with
\* reserved = OPTIMIZED for wrong flags, ERROR for a read that failed, a header
\* or a payload that does not decode.  (A reply to an accepted frame that the
\* socket refused to take is not counted against the claim.)
C13_ExactlyOneResponse ==
    (/\ conn.open
     /\ pc \in {"handled", "terminated"}
     /\ ~(pc = "terminated" /\ Expected(conn.frame) = {Response("OK", NONE)}))
        => /\ Len(conn.responses) = 1
           /\ conn.responses[1] \in Expected(conn.frame)

\* -------------------------------------------------------------------- locks

\* position of lock l among the guards the main task holds, 0 if not held
HeldAt(l) == IF \E k \in 1..Len(held) : held[k] = l
             THEN CHOOSE k \in 1..Len(held) : held[k] = l
             ELSE 0

C15_EveryOutcomeCounted ==
    [][(/\ Handling
        /\ conn.frame.kind # "eof"
        /\ ~(/\ conn.frame.flags = {"OPTIMIZED"}
             /\ conn.frame.payload \in Emails
             /\ pc' = "terminated"))
          => /\ state'.event_counter = state.event_counter + 1
             /\ persisted' = [state' EXCEPT !.present = TRUE]]_vars

\* ------------------------------------------------------------------- ledger

\* C16 (the Error Ledger is append-only): no step of the program - accept
\* branch, drain tick or any other - removes or changes a ledger record: the
\* ledger after the step begins with the ledger before it.
C16_LedgerAppendOnly ==
    [][/\ Len(errors') >= Len(errors)
       /\ \A k \in 1..Len(errors) : errors'[k] = errors[k]]_vars

\* C16 witness: a connection has been handled after ticks that left two
\* records in the ledger, and the records are there
C16_Witness ==
    /\ pc = "handled"
    /\ Len(errors) = 2
    /\ Len(emails) >= 2
    /\ held = <<>>

\* --------------------------------------------------------- drain lock failure

\* a tick that ended where it began: the loop goes round with a new sleep, or
\* with one record more, without a scan
AbortedTick == pc = "loop" /\ pc' = "loop" /\ (loop_started' # loop_started \/ errors' # errors)

\* C17 (drain lock failure): while a lock of the two cannot be acquired no
\* tick begins a scan, so the transport is not called; a tick that fails on
\* the ledger lock leaves the queue and the ledger as they were; a tick that
\* gets the ledger lock and fails on the queue lock leaves the queue as it was
\* and appends exactly one record with no subject; either way the main task
\* holds no guard afterwards, and once the locks can be acquired again a tick
\* that is due begins its scan.
C17_DrainLockFailure ==
    /\ [][(pc = "loop" /\ contended # {}) => pc' # "drain"]_vars
    /\ [][AbortedTick
            => /\ contended # {}
               /\ emails' = emails
               /\ held' = <<>>
               /\ errors' = IF "errors" \in contended
                            THEN errors
                            ELSE Append(errors, [subject |-> "None"])]_vars
    /\ [](pc = "loop" => held = <<>>)
    /\ []((/\ pc = "loop"
           /\ contended = {}
           /\ now - loop_started >= app_config.loop_interval_seconds)
             => ENABLED (DrainStart /\ pc' = "drain"))

\* C17 witness: a tick failed on the queue lock and left its record, the
\* lock came free, and a later tick is scanning the queue
C17_Witness ==
    /\ pc = "drain"
    /\ contended = {}
    /\ Len(errors) >= 1
    /\ errors[1].subject = "None"
    /\ Len(tick_log) >= 1
    /\ tick_log[1].outcome = "sent"

\* ----------------------------------------------------------------- shutdown

\* C18 (shutdown), as claimed: once the shutdown signal has been delivered the
\* process comes to its end, whatever the loop was doing (an end by panic is
\* let pass here); and from the start of the shutdown branch on, nothing is
\* enqueued and no tick scans the queue.
C18_ShutdownTerminates ==
    /\ shutdown_flag ~> pc = "terminated"
    /\ [][pc = "shutdown_sleep"
            => (emails' = emails /\ errors' = errors /\ pc' \in {"shutdown_sleep", "terminated"})]_vars

\* ------------------------------------------------------------------ signals

\* C19 (one reload per reload signal), as claimed: no signal is lost or
\* merged, so when the loop is idle and no reload is pending, every SIGHUP
\* that was delivered has had a reload branch of its own begun for it.
C19_OneReloadPerSignal ==
    (pc = "loop" /\ ~reload_flag) => reloads_owed = 0

\* ------------------------------------------------- configuration failure

\* C20 (configuration failure on reload), as claimed: whatever the load of
\* the configuration gives during a reload, the reload ends with the loop
\* running again, the execution flag true and the configuration that was
\* loaded before; a configuration failure ends the process at startup only,
\* before any connection has been served.
C20_ReloadSkipsConfigFailure ==
    /\ [][(pc = "reload_config" /\ pc' # "reload_config")
            => (pc' = "loop" /\ execution' /\ app_config' = app_config)]_vars
    /\ [](exit_cause = "startup" => (state.event_counter = 0 /\ ~conn.open))

\* ------------------------------------------------------------ execution flag

Without(q, k) == [j \in 1..(Len(q) - 1) |-> IF j < k THEN q[j] ELSE q[j + 1]]

\* the record the tick has just written
LastDone == tick_log'[Len(tick_log')]

\* C22 (entry lifetime): the queue changes only by an arrival at its end, by
\* a reload that clears it, or by a drain tick taking out the one entry it has
\* just examined, after a dispatch that succeeded or after finding it older than
\* 300 seconds; every other entry keeps its place and its received_at.  An
\* attempt that failed leaves the queue exactly as it was.
C22_EntryLifetime ==
    /\ [][emails' # emails
            => \/ /\ Handling
                  /\ Len(emails') = Len(emails) + 1
                  /\ SubSeq(emails', 1, Len(emails)) = emails
               \/ /\ pc = "reload_sleep"
                  /\ emails' = <<>>
               \/ /\ pc = "drain"
                  /\ i < Len(emails)
                  /\ emails' = Without(emails, i + 1)
                  /\ Len(tick_log') = Len(tick_log) + 1
                  /\ LastDone.entry = emails[i + 1]
                  /\ \/ LastDone.outcome = "sent"
                        /\ current_time - emails[i + 1].received_at <= 300
                     \/ LastDone.outcome = "expired"
                        /\ current_time - emails[i + 1].received_at > 300]_vars
    /\ [][(/\ pc = "drain"
           /\ Len(tick_log') = Len(tick_log) + 1
           /\ LastDone.outcome = "failed")
             => emails' = emails]_vars

\* C22 witness: in one tick the first entry's dispatch failed and it is still
\* at the head of the queue, the second entry's succeeded and it is gone
C22_Witness ==
    /\ pc = "drain"
    /\ Len(tick_log) = 2
    /\ tick_log[1].outcome = "failed"
    /\ tick_log[2].outcome = "sent"
    /\ Len(emails) >= 1
    /\ emails[1] = tick_log[1].entry
    /\ \A k \in 1..Len(emails) : emails[k] # tick_log[2].entry

\* ------------------------------------------------------- state and the tick

\* C23 (a drain tick leaves ServiceState unchanged): no step of a tick - the
\* taking of the locks, a tick given up because a lock failed, an expiry, a
\* dispatch that succeeded or failed, the end of the scan - changes
\* event_counter, is_active or data, or writes the state file.
C23_TickLeavesState ==
    [][(pc = "drain" \/ (pc = "loop" /\ pc' = "drain") \/ AbortedTick)
         => (state' = state /\ persisted' = persisted)]_vars

\* C23 witness: after a tick that failed on the queue lock, a tick has had a
\* dispatch fail, and the state is the one the last frame left
C23_Witness ==
    /\ pc = "drain"
    /\ Len(errors) = 2
    /\ errors[1].subject = "None"
    /\ errors[2].subject = "Some"
    /\ Len(tick_log) = 1
    /\ tick_log[1].outcome = "failed"
    /\ state.event_counter >= 1
    /\ persisted = state

\* ------------------------------------------------------------ in-place scan

\* C24 (in-place scan soundness): throughout a tick the index lies within the
\* queue and counts the dispatches that failed in this tick, whose entries are
\* exactly the ones before it; the k-th item examined is the entry at position
\* k - 1 of the queue as the tick found it, so none is examined twice and none
\* is skipped; the entry under the index is the first one not yet examined;
\* and the tick ends when min(rate_limit, length at tick start) were examined.
C24_ScanSound ==
    pc = "drain" =>
        /\ i >= 0 /\ i <= Len(emails)
        /\ i = Len(SelectSeq(tick_log, LAMBDA r : r.outcome = "failed"))
        /\ \A k \in 1..i :
              /\ emails[k] = SelectSeq(tick_log, LAMBDA r : r.outcome = "failed")[k].entry
        /\ iteration_count = Len(tick_log)
        /\ \A k \in 1..Len(tick_log) :
              /\ k <= Len(tick_queue)
              /\ k <= app_config.rate_limit
              /\ tick_log[k].entry = tick_queue[k]
        /\ \A j, k \in 1..Len(tick_log) : j # k => tick_log[j].entry # tick_log[k].entry
        /\ Len(emails) - i = Len(tick_queue) - Len(tick_log)
        /\ \A k \in 1..(Len(emails) - i) : emails[i + k] = tick_queue[Len(tick_log) + k]
        /\ TickDone =>
              Len(tick_log) = IF app_config.rate_limit < Len(tick_queue)
                              THEN app_config.rate_limit
                              ELSE Len(tick_queue)

\* C24 witness: in the middle of a scan of three entries the first was
\* removed and the second failed; the index is at 1, on the third
C24_Witness ==
    /\ pc = "drain"
    /\ Len(tick_queue) = 3
    /\ Len(tick_log) = 2
    /\ tick_log[1].outcome = "sent"
    /\ tick_log[2].outcome = "failed"
    /\ i = 1
    /\ Len(emails) = 2
    /\ emails[2] = tick_queue[3]
    /\ app_config.rate_limit = 3

\* ------------------------------------------------- locks across iterations

\* C25 (no lock is held across iterations): outside a drain tick the main
\* task holds no guard, so each iteration of the loop begins with both locks
\* free; the ledger holds no record without a subject (none was written for a
\* lock that failed); and a frame that is accepted as it stands is never
\* answered with ERROR (the lock-failure arm of the accept branch has not run).
C25_NoLockAcrossIterations ==
    /\ pc # "drain" => held = <<>>
    /\ pc \in {"loop", "read", "reload_sleep"}
          => \A l \in {"errors", "emails"} :
                 l \notin contended /\ ~\E k \in 1..Len(held) : held[k] = l
    /\ \A k \in 1..Len(errors) : errors[k].subject # "None"
    /\ (/\ conn.open
        /\ conn.frame.kind = "msg"
        /\ conn.frame.flags = {"OPTIMIZED"}
        /\ conn.frame.payload \in Emails)
          => \A k \in 1..Len(conn.responses) : conn.responses[k].status # "ERROR"

\* C25 witness: the loop is idle again after three connections and ticks that
\* left two dispatch failures in the ledger, and holds nothing
C25_Witness ==
    /\ pc = "loop"
    /\ held = <<>>
    /\ Len(errors) = 2
    /\ Len(emails) >= 1
    /\ state.event_counter = MaxEvents
    /\ loop_started > 0

====
